---- MODULE Spec2Model ----
(***************************************************************************)
(* Model of the DPLL solver of src/src/lib.rs: Formula (assignment trail   *)
(* and unresolved clauses), assign_true, with_true, unit_propagate, mom    *)
(* and the recursive driver solve, whose call stack is explicit here.      *)
(***************************************************************************)
EXTENDS Integers, Sequences, FiniteSets

\* The input formulas drawn by Init: clauses over the variables Vars, of the
\* lengths ClauseLens (a clause may repeat a literal or hold both polarities,
\* as parse_dimacs_file accepts either), at most MaxClauses of them.
Vars == {1, 2}
ClauseLens == {0, 1, 2}
MaxClauses == 3

\* The formulas drawn by LongInit: clauses of the lengths LongClauseLens, at
\* most MaxLongClauses of them. LongFirstInit draws at most MaxClauses
\* clauses, the first of a length in LongClauseLens, the others of the
\* lengths ClauseLens.
LongClauseLens == {0, 1, 2, 3}
MaxLongClauses == 2

VARIABLES input, stack, ret, state, panicked

vars == <<input, stack, ret, state, panicked>>

\* type Literal = isize: nonzero, the sign is the polarity. The literals
\* drawn are small, so -literal is the mathematical negation (isize::MIN,
\* whose negation overflows, is not among them).
Literal == Vars \cup {-v : v \in Vars}

\* type Clause = Vec<Literal>
Clause == UNION {[1..n -> Literal] : n \in ClauseLens}

\* The clause lists of n clauses parse_dimacs_file can hand to solve.
ClauseLists(n) == [1..n -> Clause]

\* struct Formula { assignments, clauses } as parse_dimacs_file builds it:
\* the clauses read, Default (empty) assignments.
NewFormula(clauses) == [assignments |-> <<>>, clauses |-> clauses]

\* struct State, #[derive(Default)]
DefaultState == [unit_propagation_counter |-> 0, node_counter |-> 0]

\* clause.contains(&literal)
Contains(clause, literal) == \E i \in 1..Len(clause) : clause[i] = literal

\* clause.iter().position(|lit| lit == &inverse): first index, 0 for None.
Position(clause, inverse) ==
    IF Contains(clause, inverse)
    THEN CHOOSE i \in 1..Len(clause) :
            /\ clause[i] = inverse
            /\ \A j \in 1..(i - 1) : clause[j] # inverse
    ELSE 0

\* Vec::swap_remove(i): the last element takes the place of element i.
SwapRemove(clause, i) ==
    [j \in 1..(Len(clause) - 1) |-> IF j = i THEN clause[Len(clause)] ELSE clause[j]]

\* A strip that deletes every occurrence of the inverse.
StripInverseAll(clause, inverse) ==
    SelectSeq(clause, LAMBDA lit : lit # inverse)

\* The body of the loop of assign_true over one clause.
StripInverse(clause, inverse) ==
    IF Position(clause, inverse) # 0
    THEN SwapRemove(clause, Position(clause, inverse))
    ELSE clause

\* assign_true with a retain that also drops the clauses holding the inverse.
AssignTrueBothPolarities(self, literal) ==
    [assignments |-> Append(self.assignments, literal),
     clauses |-> SelectSeq(self.clauses,
                           LAMBDA clause : ~Contains(clause, literal) /\ ~Contains(clause, -literal))]

\* assign_true without the retain: satisfied clauses stay.
AssignTrueNoRetain(self, literal) ==
    [assignments |-> Append(self.assignments, literal),
     clauses |-> [i \in 1..Len(self.clauses) |-> StripInverse(self.clauses[i], -literal)]]

\* Formula::assign_true
AssignTrue(self, literal) ==
    LET retained == SelectSeq(self.clauses, LAMBDA clause : ~Contains(clause, literal))
    IN  [assignments |-> Append(self.assignments, literal),
         clauses |-> [i \in 1..Len(retained) |-> StripInverse(retained[i], -literal)]]

\* with_true without the clone: the receiver itself is assigned.
WithTrueInPlace(self, literal) ==
    [new |-> AssignTrue(self, literal), self |-> AssignTrue(self, literal)]

\* Formula::with_true: the copy with the literal assigned (new) and the
\* receiver as the call leaves it (self).
WithTrue(self, literal) ==
    [new |-> AssignTrue(self, literal), self |-> self]

\* A filter that also takes the clauses of length 2.
IsUnitOrPair(clause) == Len(clause) \in {1, 2}

\* A filter that also takes the empty clauses.
IsUnitAtMost(clause) == Len(clause) <= 1

\* The filter of unit_propagate.
IsUnit(clause) == Len(clause) = 1

\* Ascending sequence of the members of a finite set of integers
\* (sort followed by dedup of the collected vector).
RECURSIVE SortedSeq(_)
SortedSeq(S) ==
    IF S = {} THEN <<>>
    ELSE LET m == CHOOSE x \in S : \A y \in S : x <= y
         IN  <<m>> \o SortedSeq(S \ {m})

\* assign_to_true of unit_propagate after sort and dedup.
AssignToTrue(self) ==
    SortedSeq({self.clauses[i][1] : i \in {k \in 1..Len(self.clauses) : IsUnit(self.clauses[k])}})

\* unit[0] is read from a clause that has no element 0.
UnitIndexPanics(self) ==
    \E i \in 1..Len(self.clauses) : IsUnit(self.clauses[i]) /\ Len(self.clauses[i]) = 0

\* The loop of unit_propagate: assign_true for each literal in order.
RECURSIVE AssignAll(_, _)
AssignAll(self, literals) ==
    IF literals = <<>> THEN self
    ELSE AssignAll(AssignTrue(self, Head(literals)), Tail(literals))

\* unit_propagate without the counter update.
PropagationCountZero(self) == 0

\* The amount unit_propagate adds to unit_propagation_counter.
PropagationCount(self) == Len(AssignToTrue(self))

\* unit_propagate repeated until no clause of length 1 is left.
RECURSIVE UnitPropagateFixpoint(_)
UnitPropagateFixpoint(self) ==
    IF AssignToTrue(self) = <<>> THEN self
    ELSE UnitPropagateFixpoint(AssignAll(self, AssignToTrue(self)))

\* Formula::unit_propagate, the formula it leaves.
UnitPropagate(self) == AssignAll(self, AssignToTrue(self))

\* min_len taken with max() in the place of min().
MinLenLongest(self) ==
    IF Len(self.clauses) = 0 THEN -1
    ELSE CHOOSE n \in {Len(self.clauses[i]) : i \in 1..Len(self.clauses)} :
            \A i \in 1..Len(self.clauses) : n >= Len(self.clauses[i])

\* min_len of mom; -1 stands for None (no clause).
MinLen(self) ==
    IF Len(self.clauses) = 0 THEN -1
    ELSE CHOOSE n \in {Len(self.clauses[i]) : i \in 1..Len(self.clauses)} :
            \A i \in 1..Len(self.clauses) : n <= Len(self.clauses[i])

\* The clauses mom iterates over: those of length min_len.
ShortestClauses(self) ==
    LET min_len == MinLen(self)
    IN  {i \in 1..Len(self.clauses) : Len(self.clauses[i]) = min_len}

\* Occurrences of a literal in the clauses of minimal length (every
\* occurrence counts, also a repeated one within a clause).
Occurrences(self, literal) ==
    Cardinality(UNION {{<<i, j>> : j \in {k \in 1..Len(self.clauses[i]) :
                                            self.clauses[i][k] = literal}} :
                       i \in ShortestClauses(self)})

\* The keys of the counts map of mom.
CountKeys(self) ==
    UNION {{self.clauses[i][j] : j \in 1..Len(self.clauses[i])} : i \in ShortestClauses(self)}

\* The value the counts map holds for a key: inserted as 0, then incremented.
Counts(self, literal) == Occurrences(self, literal) - 1

\* Either unwrap() of mom fails.
MomPanics(self) == MinLen(self) = -1 \/ CountKeys(self) = {}

\* mom with min_by_key in the place of max_by_key.
MomLeast(self) ==
    LET counts == CountKeys(self)
    IN  {l \in counts : \A k \in counts : Counts(self, l) <= Counts(self, k)}

\* The literals mom can return: max_by_key over a hash map, whose iteration
\* order decides which key of maximal count is returned.
Mom(self) ==
    LET counts == CountKeys(self)
    IN  {l \in counts : \A k \in counts : Counts(self, k) <= Counts(self, l)}

\* formula.clauses.is_empty()
ClausesEmpty(formula) == Len(formula.clauses) = 0

\* The test with all() in the place of find().is_some().
HasEmptyClauseAll(formula) == \A i \in 1..Len(formula.clauses) : Len(formula.clauses[i]) = 0

\* formula.clauses.iter().find(|clause| clause.is_empty()).is_some()
HasEmptyClause(formula) == \E i \in 1..Len(formula.clauses) : Len(formula.clauses[i]) = 0

\* The false branch is never tried.
OrElseNever(r) == FALSE

\* The false branch is tried whatever the true branch returned.
OrElseAlways(r) == TRUE

\* Option::or_else: the closure runs only on None.
OrElseRuns(r) == r.tag = "None"

Pending == [tag |-> "Pending", assignments |-> <<>>]
NoneResult == [tag |-> "None", assignments |-> <<>>]
SomeResult(a) == [tag |-> "Some", assignments |-> a]

\* One invocation of solve: its formula, its position, the literal it
\* branched on; arg and preBranch record the formula it was called with and
\* the formula it held when it called mom.
Frame(formula) ==
    [formula |-> formula, pc |-> "entry", literal |-> 0,
     arg |-> formula, preBranch |-> formula]

Top == stack[Len(stack)]

SetTop(frame) == [stack EXCEPT ![Len(stack)] = frame]

Pop == SubSeq(stack, 1, Len(stack) - 1)

Init ==
    /\ \E n \in 0..MaxClauses : input \in ClauseLists(n)
    /\ stack = <<Frame(NewFormula(input))>>
    /\ ret = Pending
    /\ state = DefaultState
    /\ panicked = FALSE

\* solve: state.node_counter += 1
Enter ==
    /\ ~panicked
    /\ stack # <<>>
    /\ Top.pc = "entry"
    /\ state' = [state EXCEPT !.node_counter = @ + 1]
    /\ stack' = SetTop([Top EXCEPT !.pc = "propagate"])
    /\ UNCHANGED <<input, ret, panicked>>

\* solve: formula.unit_propagate(state)
Propagate ==
    /\ ~panicked
    /\ stack # <<>>
    /\ Top.pc = "propagate"
    /\ IF UnitIndexPanics(Top.formula)
       THEN /\ panicked' = TRUE
            /\ UNCHANGED <<stack, state>>
       ELSE /\ state' = [state EXCEPT !.unit_propagation_counter =
                                        @ + PropagationCount(Top.formula)]
            /\ stack' = SetTop([Top EXCEPT !.formula = UnitPropagate(Top.formula),
                                           !.pc = "check"])
            /\ UNCHANGED panicked
    /\ UNCHANGED <<input, ret>>

\* solve: return Some(formula.assignments)
ReturnSome ==
    /\ ~panicked
    /\ stack # <<>>
    /\ Top.pc = "check"
    /\ ClausesEmpty(Top.formula)
    /\ ret' = SomeResult(Top.formula.assignments)
    /\ stack' = Pop
    /\ UNCHANGED <<input, state, panicked>>

\* solve: return None
ReturnNone ==
    /\ ~panicked
    /\ stack # <<>>
    /\ Top.pc = "check"
    /\ ~ClausesEmpty(Top.formula)
    /\ HasEmptyClause(Top.formula)
    /\ ret' = NoneResult
    /\ stack' = Pop
    /\ UNCHANGED <<input, state, panicked>>

\* solve: let literal = formula.mom(); solve(state, formula.with_true(literal))
Branch ==
    /\ ~panicked
    /\ stack # <<>>
    /\ Top.pc = "check"
    /\ ~ClausesEmpty(Top.formula)
    /\ ~HasEmptyClause(Top.formula)
    /\ IF MomPanics(Top.formula)
       THEN /\ panicked' = TRUE
            /\ UNCHANGED stack
       ELSE /\ \E literal \in Mom(Top.formula) :
                 stack' = Append(
                     SetTop([Top EXCEPT !.formula = WithTrue(Top.formula, literal).self,
                                        !.preBranch = Top.formula,
                                        !.literal = literal,
                                        !.pc = "true_branch"]),
                     Frame(WithTrue(Top.formula, literal).new))
            /\ UNCHANGED panicked
    /\ UNCHANGED <<input, ret, state>>

\* solve: the true branch returned Some, or_else passes it on.
TrueBranchSome ==
    /\ ~panicked
    /\ stack # <<>>
    /\ Top.pc = "true_branch"
    /\ ret # Pending
    /\ ~OrElseRuns(ret)
    /\ stack' = Pop
    /\ UNCHANGED <<input, ret, state, panicked>>

\* solve: the true branch returned None,
\* or_else(|| solve(state, formula.with_true(-literal)))
TrueBranchNone ==
    /\ ~panicked
    /\ stack # <<>>
    /\ Top.pc = "true_branch"
    /\ ret # Pending
    /\ OrElseRuns(ret)
    /\ stack' = Append(
           SetTop([Top EXCEPT !.formula = WithTrue(Top.formula, -Top.literal).self,
                              !.pc = "false_branch"]),
           Frame(WithTrue(Top.formula, -Top.literal).new))
    /\ ret' = Pending
    /\ UNCHANGED <<input, state, panicked>>

\* solve: the result of the false branch is the result of the invocation.
FalseBranchReturn ==
    /\ ~panicked
    /\ stack # <<>>
    /\ Top.pc = "false_branch"
    /\ ret # Pending
    /\ stack' = Pop
    /\ UNCHANGED <<input, ret, state, panicked>>

Next ==
    \/ Enter
    \/ Propagate
    \/ ReturnSome
    \/ ReturnNone
    \/ Branch
    \/ TrueBranchSome
    \/ TrueBranchNone
    \/ FalseBranchReturn

Spec == Init /\ [][Next]_vars

\* The input formulas with clauses of up to three literals.
LongInit ==
    /\ \E n \in 0..MaxLongClauses :
           input \in [1..n -> UNION {[1..k -> Literal] : k \in LongClauseLens}]
    /\ stack = <<Frame(NewFormula(input))>>
    /\ ret = Pending
    /\ state = DefaultState
    /\ panicked = FALSE

\* solve runs to completion: it is sequential code whose next step is always
\* taken.
FairSpec == Spec /\ WF_vars(Next)

\* The input formulas whose first clause may have up to three literals.
LongFirstInit ==
    /\ \/ input = <<>>
       \/ \E n \in 0..(MaxClauses - 1) :
              \E first \in UNION {[1..k -> Literal] : k \in LongClauseLens} :
                  \E rest \in ClauseLists(n) : input = <<first>> \o rest
    /\ stack = <<Frame(NewFormula(input))>>
    /\ ret = Pending
    /\ state = DefaultState
    /\ panicked = FALSE

\* solve on the formulas of LongFirstInit.
LongSpec == LongFirstInit /\ [][Next]_vars

\* One call formula.assign_true(literal) on a formula as read.
ApplyAssignTrue ==
    /\ Len(stack) = 1
    /\ Top.pc = "entry"
    /\ \E literal \in Literal :
           stack' = SetTop([Top EXCEPT !.formula = AssignTrue(Top.formula, literal),
                                      !.literal = literal,
                                      !.pc = "assigned"])
    /\ UNCHANGED <<input, ret, state, panicked>>

\* assign_true as a function of its arguments.
AssignSpec == LongInit /\ [][ApplyAssignTrue]_vars

\* The top-level call of solve has returned.
Done == stack = <<>> /\ ret # Pending

(***************************************************************************)
(* Vocabulary of the properties.                                           *)
(***************************************************************************)

\* The members of a sequence.
Range(seq) == {seq[i] : i \in 1..Len(seq)}

\* A total truth assignment is the set of the variables it makes true.
TruthAssignments == SUBSET Vars

LiteralHolds(trueVars, literal) ==
    IF literal > 0 THEN literal \in trueVars ELSE (-literal) \notin trueVars

ClauseHolds(trueVars, clause) ==
    \E j \in 1..Len(clause) : LiteralHolds(trueVars, clause[j])

\* The truth assignments that satisfy every clause and every given literal.
Models(clauses, literals) ==
    {t \in TruthAssignments :
        /\ \A i \in 1..Len(clauses) : ClauseHolds(t, clauses[i])
        /\ \A l \in literals : LiteralHolds(t, l)}

Satisfiable(clauses) == Models(clauses, {}) # {}

\* The frames that have called mom and branched.
Branched(i) == stack[i].pc \in {"true_branch", "false_branch"}

\* The run of solve that breaks every tie of mom towards the least literal.
RECURSIVE LeastTieSolve(_)
LeastTieSolve(formula) ==
    LET propagated == UnitPropagate(formula)
    IN  IF ClausesEmpty(propagated) THEN SomeResult(propagated.assignments)
        ELSE IF HasEmptyClause(propagated) THEN NoneResult
        ELSE LET literal == CHOOSE l \in Mom(propagated) :
                                \A k \in Mom(propagated) : l <= k
                 first == LeastTieSolve(AssignTrue(propagated, literal))
             IN  IF first.tag = "Some" THEN first
                 ELSE LeastTieSolve(AssignTrue(propagated, -literal))

(***************************************************************************)
(* C1..C5                                                                  *)
(***************************************************************************)

\* C1: solve returns Some exactly when some total truth assignment satisfies
\* every clause of the input formula, and None otherwise.
C1_SolveDecidesSatisfiability ==
    Done => ((ret.tag = "Some") <=> Satisfiable(input))

\* C2: whenever solve returns Some(A), every clause of the input formula
\* contains at least one literal that is a member of A.
C2_EveryClauseHasAssignedLiteral ==
    (Done /\ ret.tag = "Some") =>
        \A i \in 1..Len(input) : \E j \in 1..Len(input[i]) :
            input[i][j] \in Range(ret.assignments)

\* A returned assignment of several literals for an input of several clauses.
C2_Witness ==
    /\ Done
    /\ ret.tag = "Some"
    /\ Len(input) >= 2
    /\ Len(ret.assignments) >= 2

\* C3: whichever literal of maximal tally mom returns, solve returns the
\* same verdict (Some or None) for the same input: the verdict of every run
\* is the verdict of the run that breaks ties towards the least literal.
C3_VerdictIndependentOfTieBreak ==
    Done => ret.tag = LeastTieSolve(NewFormula(input)).tag

\* A run whose tie-breaks gave another assignment list than the least-literal
\* run, after more than one invocation.
C3_Witness ==
    /\ Done
    /\ ret.tag = "Some"
    /\ ret # LeastTieSolve(NewFormula(input))
    /\ state.node_counter >= 2

\* C4: with_true leaves the receiver unchanged: a node that has branched
\* still holds the trail and clauses it held when it called mom, also after
\* the whole exploration of the true branch, and each branch is entered with
\* assign_true applied to exactly that formula.
C4_WithTrueLeavesReceiver ==
    \A i \in 1..Len(stack) :
        Branched(i) =>
            /\ stack[i].formula = stack[i].preBranch
            /\ i < Len(stack) =>
                  stack[i + 1].arg =
                      AssignTrue(stack[i].preBranch,
                                 IF stack[i].pc = "true_branch"
                                 THEN stack[i].literal ELSE -stack[i].literal)

\* The false branch of a node is being explored after its true branch failed.
C4_Witness ==
    \E i \in 1..Len(stack) :
        /\ stack[i].pc = "false_branch"
        /\ i < Len(stack)
        /\ stack[i].formula.clauses # <<>>

\* C5: in every formula solve holds, no clause contains a literal of the
\* assignment trail and no clause contains the negation of a trail literal.
C5_NoAssignedLiteralInClauses ==
    \A i \in 1..Len(stack) :
        \A l \in Range(stack[i].formula.assignments) :
            \A k \in 1..Len(stack[i].formula.clauses) :
                /\ ~Contains(stack[i].formula.clauses[k], l)
                /\ ~Contains(stack[i].formula.clauses[k], -l)

(***************************************************************************)
(* C6..C10                                                                 *)
(***************************************************************************)

\* The frames whose unit_propagate pass has run.
Propagated(i) == stack[i].pc \notin {"entry", "propagate"}

\* The formula a frame held when its unit_propagate pass ended.
AfterPass(i) == IF Branched(i) THEN stack[i].preBranch ELSE stack[i].formula

\* The literals appended to the trail between entry and the end of the pass.
ForcedBy(i) ==
    {AfterPass(i).assignments[k] :
        k \in (Len(stack[i].arg.assignments) + 1)..Len(AfterPass(i).assignments)}

\* C6: one unit_propagate pass preserves satisfiability: the clauses at entry
\* are satisfiable exactly when the residual clauses together with the forced
\* literals are, and every forced literal is true in every satisfying
\* assignment of the clauses at entry.
C6_PropagatePreservesSatisfiability ==
    \A i \in 1..Len(stack) :
        Propagated(i) =>
            /\ Satisfiable(stack[i].arg.clauses) <=>
                   (Models(AfterPass(i).clauses, ForcedBy(i)) # {})
            /\ \A t \in Models(stack[i].arg.clauses, {}) :
                   \A l \in ForcedBy(i) : LiteralHolds(t, l)

\* A pass that forced a literal of a satisfiable clause set and left clauses.
C6_Witness ==
    \E i \in 1..Len(stack) :
        /\ stack[i].pc = "check"
        /\ ForcedBy(i) # {}
        /\ stack[i].formula.clauses # <<>>
        /\ Satisfiable(stack[i].arg.clauses)

\* C7: if the input formula contains an empty clause, solve returns None from
\* its first invocation: it never calls mom, never recurses, does not panic,
\* and node_counter is 1 when it returns.
C7_EmptyClauseInputIsNoneAtFirstNode ==
    (\E i \in 1..Len(input) : Len(input[i]) = 0) =>
        /\ ~panicked
        /\ Len(stack) <= 1
        /\ \A i \in 1..Len(stack) : ~Branched(i)
        /\ Done => (ret = NoneResult /\ state.node_counter = 1)

\* solve returned for an input with an empty clause next to a longer clause.
C7_Witness ==
    /\ Done
    /\ \E i \in 1..Len(input) : Len(input[i]) = 0
    /\ \E i \in 1..Len(input) : Len(input[i]) >= 2

\* C8 as stated: when solve returns for an input of at least one clause,
\* node_counter and unit_propagation_counter are both strictly positive.
C8_BothCountersPositive ==
    (Done /\ Len(input) >= 1) =>
        (state.node_counter > 0 /\ state.unit_propagation_counter > 0)

\* C8 amended: neither counter ever decreases; when solve returns,
\* node_counter is strictly positive, and unit_propagation_counter is
\* strictly positive if the input formula contains a clause of length 1.
C8_CountersMonotoneAndPositive ==
    /\ [][/\ state'.node_counter >= state.node_counter
          /\ state'.unit_propagation_counter >= state.unit_propagation_counter]_vars
    /\ [](Done =>
            /\ state.node_counter > 0
            /\ (\E i \in 1..Len(input) : Len(input[i]) = 1) =>
                   state.unit_propagation_counter > 0)

\* solve returned for an input with a unit clause after several invocations.
C8_Witness ==
    /\ Done
    /\ \E i \in 1..Len(input) : Len(input[i]) = 1
    /\ state.node_counter >= 2
    /\ state.unit_propagation_counter >= 2

C10_DepthFirstTrueFirstShortCircuit ==
    [][/\ ret.tag = "Some" =>
              /\ ret' = ret
              /\ stack' = SubSeq(stack, 1, Len(stack) - 1)
       /\ Len(stack') > Len(stack) =>
              /\ Len(stack') = Len(stack) + 1
              /\ stack'[Len(stack')].pc = "entry"
              /\ \/ /\ stack'[Len(stack)].pc = "true_branch"
                    /\ Top.pc = "check"
                    /\ ret = Pending
                    /\ stack'[Len(stack')].arg =
                           AssignTrue(Top.formula, stack'[Len(stack)].literal)
                 \/ /\ stack'[Len(stack)].pc = "false_branch"
                    /\ Top.pc = "true_branch"
                    /\ ret = NoneResult
                    /\ stack'[Len(stack)].literal = Top.literal
                    /\ stack'[Len(stack')].arg =
                           AssignTrue(Top.preBranch, -Top.literal)]_vars

\* Some(A) is on its way up through a node whose true branch had failed.
C10_Witness ==
    /\ ret.tag = "Some"
    /\ \E i \in 1..Len(stack) : stack[i].pc = "false_branch"

(***************************************************************************)
(* C11..C18                                                                *)
(***************************************************************************)

\* The indices of the clauses that do not contain the literal, ascending.
KeptIndices(clauses, literal) ==
    SortedSeq({i \in 1..Len(clauses) : ~Contains(clauses[i], literal)})

\* The clause without its first occurrence of the literal, the other
\* literals in their order.
WithoutFirst(clause, literal) ==
    IF Contains(clause, literal)
    THEN LET p == CHOOSE i \in 1..Len(clause) :
                     clause[i] = literal /\ \A j \in 1..(i - 1) : clause[j] # literal
         IN  SubSeq(clause, 1, p - 1) \o SubSeq(clause, p + 1, Len(clause))
    ELSE clause

\* How often a literal occurs in a clause.
CountIn(clause, literal) == Cardinality({j \in 1..Len(clause) : clause[j] = literal})

\* The formula assign_true was applied to, the literal and the result.
Assigned == Len(stack) = 1 /\ Top.pc = "assigned"

\* C11 as stated: after assign_true the surviving clauses are in their old
\* relative order and each is its old clause with only the first occurrence
\* of -literal deleted, the other literals in their old relative order.
C11_OrderPreserved ==
    Assigned =>
        LET kept == KeptIndices(Top.arg.clauses, Top.literal)
        IN  /\ Len(Top.formula.clauses) = Len(kept)
            /\ \A k \in 1..Len(kept) :
                   Top.formula.clauses[k] =
                       WithoutFirst(Top.arg.clauses[kept[k]], -Top.literal)

\* C11 amended: the surviving clauses are in their old relative order; each
\* has the literals of its old clause less one occurrence of -literal, the
\* literals before that occurrence in place, and the last literal of the old
\* clause in the place of that occurrence.
C11_ClauseOrderAndLiteralsKept ==
    Assigned =>
        LET kept == KeptIndices(Top.arg.clauses, Top.literal)
        IN  /\ Len(Top.formula.clauses) = Len(kept)
            /\ \A k \in 1..Len(kept) :
                   LET old == Top.arg.clauses[kept[k]]
                       new == Top.formula.clauses[k]
                       gone == IF Contains(old, -Top.literal) THEN 1 ELSE 0
                   IN  /\ Len(new) = Len(old) - gone
                       /\ \A l \in Literal :
                              CountIn(new, l) =
                                  CountIn(old, l) - (IF l = -Top.literal THEN gone ELSE 0)
                       /\ \A j \in 1..Len(new) :
                              new[j] # old[j] =>
                                  /\ old[j] = -Top.literal
                                  /\ new[j] = old[Len(old)]
                                  /\ \A i \in 1..(j - 1) : old[i] # -Top.literal

\* assign_true moved the last literal of a clause of three into the place of
\* the inverse, next to a clause it removed or kept.
C11_Witness ==
    /\ Assigned
    /\ Len(Top.arg.clauses) = 2
    /\ \E k \in 1..Len(Top.formula.clauses) :
           /\ Len(Top.formula.clauses[k]) = 2
           /\ Top.formula.clauses[k] #
                  WithoutFirst(Top.arg.clauses[KeptIndices(Top.arg.clauses, Top.literal)[k]],
                               -Top.literal)

\* The variable of a literal.
VarOf(literal) == IF literal < 0 THEN -literal ELSE literal

\* C12: every call of assign_true made during solve is given a literal whose
\* variable is not yet assigned: the trail of every formula solve holds never
\* has two literals of one variable.
C12_AssignedVariablesAreFresh ==
    \A i \in 1..Len(stack) :
        \A j, k \in 1..Len(stack[i].formula.assignments) :
            j # k => VarOf(stack[i].formula.assignments[j]) #
                         VarOf(stack[i].formula.assignments[k])

\* The clauses of a formula that no clause is shorter than.
MinimalClauses(formula) ==
    {i \in 1..Len(formula.clauses) :
        \A k \in 1..Len(formula.clauses) :
            Len(formula.clauses[i]) <= Len(formula.clauses[k])}

\* The number of clauses of minimal length a literal occurs in.
ClauseTally(formula, literal) ==
    Cardinality({i \in MinimalClauses(formula) : Contains(formula.clauses[i], literal)})

\* The number of occurrences of a literal in the clauses of minimal length.
OccurrenceTally(formula, literal) ==
    Cardinality({p \in UNION {{i} \X (1..Len(formula.clauses[i])) :
                                 i \in MinimalClauses(formula)} :
                    formula.clauses[p[1]][p[2]] = literal})

\* C13 as stated: the literal mom returned occurs in a clause of minimal
\* length, and no literal occurs in strictly more clauses of that length.
C13_MomMaximisesClauseTally ==
    \A i \in 1..Len(stack) :
        Branched(i) =>
            /\ ClauseTally(stack[i].preBranch, stack[i].literal) >= 1
            /\ \A l \in Literal :
                   ClauseTally(stack[i].preBranch, l) <=
                       ClauseTally(stack[i].preBranch, stack[i].literal)

\* C13 amended: the literal mom returned occurs in a clause of minimal
\* length, and no literal has strictly more occurrences in the clauses of
\* that length, an occurrence repeated within a clause counting each time;
\* for the clauses [[1,2],[-1,2]] it returns 2.
C13_MomMaximisesOccurrences ==
    /\ \A i \in 1..Len(stack) :
           Branched(i) =>
               /\ ClauseTally(stack[i].preBranch, stack[i].literal) >= 1
               /\ LET chosen == OccurrenceTally(stack[i].preBranch, stack[i].literal)
                  IN  \A l \in Literal :
                          OccurrenceTally(stack[i].preBranch, l) <= chosen
    /\ (input = <<<<1, 2>>, <<-1, 2>>>> /\ Len(stack) >= 1 /\ Branched(1)) =>
           stack[1].literal = 2

\* mom returned a literal that owes its maximal tally to a repeated
\* occurrence, where another literal of a shortest clause has fewer.
C13_Witness ==
    \E i \in 1..Len(stack) :
        /\ Branched(i)
        /\ OccurrenceTally(stack[i].preBranch, stack[i].literal) >= 2
        /\ ClauseTally(stack[i].preBranch, stack[i].literal) <
               OccurrenceTally(stack[i].preBranch, stack[i].literal)
        /\ \E l \in Literal :
               /\ OccurrenceTally(stack[i].preBranch, l) >= 1
               /\ OccurrenceTally(stack[i].preBranch, l) <
                      OccurrenceTally(stack[i].preBranch, stack[i].literal)

\* The literals that are the sole literal of a clause of length 1.
UnitLiteralsOf(formula) ==
    {l \in Literal : \E i \in 1..Len(formula.clauses) : formula.clauses[i] = <<l>>}

\* C14: one unit_propagate call appends to the trail exactly the distinct
\* literals that are the sole literal of a length-1 clause at its entry, each
\* once, and adds their number to unit_propagation_counter; the literal of a
\* clause that only becomes length 1 during the call is not appended.
C14_PropagateForcesEntryUnitsOnce ==
    [][(stack # <<>> /\ Top.pc = "propagate" /\ stack' # stack) =>
          LET entry == Top.formula
              after == stack'[Len(stack)].formula
              units == UnitLiteralsOf(entry)
              old == Len(entry.assignments)
          IN  /\ Len(after.assignments) = old + Cardinality(units)
              /\ SubSeq(after.assignments, 1, old) = entry.assignments
              /\ {after.assignments[k] : k \in (old + 1)..Len(after.assignments)} = units
              /\ state'.unit_propagation_counter =
                     state.unit_propagation_counter + Cardinality(units)
              /\ state'.node_counter = state.node_counter]_vars

\* A pass forced a literal and left a clause of length 1 that it made, whose
\* literal it did not append.
C14_Witness ==
    \E i \in 1..Len(stack) :
        /\ stack[i].pc = "check"
        /\ ForcedBy(i) # {}
        /\ state.unit_propagation_counter >= 1
        /\ \E l \in UnitLiteralsOf(stack[i].formula) : l \notin ForcedBy(i)

\* The invocation made by frame i has run its unit_propagate pass.
ChildPropagated(i) == i < Len(stack) /\ Propagated(i + 1)

\* C15 as stated: the literal of a clause that a unit_propagate pass left at
\* length 1, in a node that goes on to branch, is forced by the
\* unit_propagate call of the next recursion level.
C15_LeftUnitsForcedByNextPropagate ==
    \A i \in 1..Len(stack) :
        (Branched(i) /\ ChildPropagated(i)) =>
            \A u \in UnitLiteralsOf(stack[i].preBranch) : u \in ForcedBy(i + 1)

\* C15 amended: when a unit_propagate pass leaves clauses of length 1 in a
\* node that goes on to branch, mom returns the literal of one of them and
\* the true branch assigns it through with_true, not through unit_propagate;
\* the literals of the left length-1 clauses of any other variable are
\* forced by the unit_propagate call of the next recursion level.
C15_LeftUnitsBranchedOrForced ==
    \A i \in 1..Len(stack) :
        (Branched(i) /\ UnitLiteralsOf(stack[i].preBranch) # {}) =>
            /\ stack[i].literal \in UnitLiteralsOf(stack[i].preBranch)
            /\ (stack[i].pc = "true_branch" /\ i < Len(stack)) =>
                   /\ stack[i + 1].arg.assignments =
                          Append(stack[i].preBranch.assignments, stack[i].literal)
                   /\ Propagated(i + 1) => stack[i].literal \notin ForcedBy(i + 1)
            /\ ChildPropagated(i) =>
                   \A u \in UnitLiteralsOf(stack[i].preBranch) :
                       VarOf(u) # VarOf(stack[i].literal) => u \in ForcedBy(i + 1)

\* A pass left length-1 clauses of two variables; mom took one literal and
\* the unit_propagate call of the child forced the other.
C15_Witness ==
    \E i \in 1..Len(stack) :
        /\ Branched(i)
        /\ ChildPropagated(i)
        /\ stack[i].literal \in UnitLiteralsOf(stack[i].preBranch)
        /\ \E u \in UnitLiteralsOf(stack[i].preBranch) :
               VarOf(u) # VarOf(stack[i].literal) /\ u \in ForcedBy(i + 1)

\* The variables of the literals of a trail.
AssignedVars(assignments) == {VarOf(assignments[k]) : k \in 1..Len(assignments)}

\* The variables that occur in the input formula.
InputVars == UNION {{VarOf(input[i][j]) : j \in 1..Len(input[i])} : i \in 1..Len(input)}

\* C16: the number of nested invocations of solve below the top-level call
\* never exceeds the number of distinct variables of the input, and every
\* invocation is entered with at least one more distinct variable in its
\* trail than the invocation that made it had at entry.
C16_DepthBoundedByVariables ==
    /\ Len(stack) - 1 <= Cardinality(InputVars)
    /\ \A i \in 1..(Len(stack) - 1) :
           Cardinality(AssignedVars(stack[i + 1].arg.assignments)) >
               Cardinality(AssignedVars(stack[i].arg.assignments))

\* The total number of literal occurrences of a clause collection.
RECURSIVE TotalLiterals(_)
TotalLiterals(clauses) ==
    IF clauses = <<>> THEN 0
    ELSE Len(Head(clauses)) + TotalLiterals(Tail(clauses))

\* C17: solve terminates: the top-level call eventually returns Some or
\* None, and every recursive invocation is entered with a clause collection
\* of strictly fewer literal occurrences than its parent held when it
\* branched.
C17_SolveTerminates ==
    /\ <>Done
    /\ [](\A i \in 1..(Len(stack) - 1) :
              TotalLiterals(stack[i + 1].arg.clauses) <
                  TotalLiterals(stack[i].preBranch.clauses))

\* The top-level call returned after a true branch and a false branch.
C17_Witness ==
    /\ Done
    /\ state.node_counter >= 3
    /\ ret.tag = "None"

\* C18: whenever solve returns Some(A), A contains no literal together with
\* its negation and no literal twice.
C18_ReturnedAssignmentConsistent ==
    (Done /\ ret.tag = "Some") =>
        \A j, k \in 1..Len(ret.assignments) :
            j # k => /\ ret.assignments[j] # ret.assignments[k]
                     /\ ret.assignments[j] # -ret.assignments[k]

====
